---- MODULE Spec2Model ----
(***************************************************************************)
(* Workout analytics tracker: the analytics functions of analytics.py and  *)
(* cli.py, the JSON workout store of storage.py and the handlers of api.py *)
(* and cli.py that read it.                                                *)
(*                                                                         *)
(* Python floats are modelled as exact rationals <<n, d>> in lowest terms  *)
(* with d > 0; None is the empty tuple and NaN is <<0, 0>>.                *)
(***************************************************************************)
EXTENDS Integers, Sequences, FiniteSets, TLC

VARIABLES
    store,  \* data/workouts.json: NoFile, or the JSON text of the file
    resp,   \* what the last store operation or handler gave back to its caller
    arg,    \* the arguments of the pending call of an analytics function
    res,    \* the outcome of that call, Pending before it ran
    calls,  \* the save_workout calls that run concurrently: each thread's position
    saved   \* history: the workouts saved since the most recent clear_all_workouts

vars == <<store, resp, arg, res, calls, saved>>

(***************************************************************************)
(* Bounds of the model.                                                    *)
(***************************************************************************)
MaxSets == 1        \* sets per exercise entry of a best_1rm_for_workout input
MaxExercises == 2   \* exercise entries per best_1rm_for_workout input
MaxWorkouts == 3    \* workouts per get_1rm_timeseries input
MaxPoints == 3      \* points per time-series given to the trend analyzers
MaxStore == 2       \* workouts saved into the store
MaxThreads == 2     \* save_workout calls that run concurrently
MaxHistory == 5     \* stored workouts of the training histories given to the API

(***************************************************************************)
(* Exact rational arithmetic standing for float arithmetic.                *)
(***************************************************************************)
None == <<>>
NaN == <<0, 0>>

Abs(n) == IF n < 0 THEN -n ELSE n

RECURSIVE GCD(_, _)
GCD(a, b) == IF b = 0 THEN a ELSE GCD(b, a % b)

R(n, d) ==
    LET g == GCD(Abs(n), Abs(d))
        s == IF d < 0 THEN -1 ELSE 1
    IN  <<(s * n) \div g, (s * d) \div g>>

Q(n) == <<n, 1>>
RAdd(a, b) == R(a[1] * b[2] + b[1] * a[2], a[2] * b[2])
RSub(a, b) == R(a[1] * b[2] - b[1] * a[2], a[2] * b[2])
RMul(a, b) == R(a[1] * b[1], a[2] * b[2])
RDiv(a, b) == R(a[1] * b[2], a[2] * b[1])
RLt(a, b) == a[1] * b[2] < b[1] * a[2]
RLe(a, b) == a[1] * b[2] <= b[1] * a[2]
RAbs(a) == <<Abs(a[1]), a[2]>>
IsNum(v) == v # None /\ v # NaN

\* The sequences over S of length at most n.
SeqsUpTo(S, n) == UNION {[1..k -> S] : k \in 0..n}

RECURSIVE SumSeq(_)
SumSeq(s) == IF s = <<>> THEN Q(0) ELSE RAdd(Head(s), SumSeq(Tail(s)))

(***************************************************************************)
(* analytics.py                                                            *)
(***************************************************************************)
\* str.lower() on the alphabet of the modelled names, a name being the
\* sequence of its characters.
LowerChar(c) ==
    CASE c = "B" -> "b"
      [] c = "P" -> "p"
      [] c = "S" -> "s"
      [] OTHER -> c

lower(name) == [i \in 1..Len(name) |-> LowerChar(name[i])]

estimate_1rm_noscale(weight, reps) == RMul(weight, RAdd(Q(1), Q(reps)))

\* analytics.estimate_1rm: weight * (1 + reps / 30)
estimate_1rm(weight, reps) == RMul(weight, RAdd(Q(1), RDiv(Q(reps), Q(30))))

\* cli.estimate_1rm: the copy of the same formula
cli_estimate_1rm(weight, reps) == RMul(weight, RAdd(Q(1), RDiv(Q(reps), Q(30))))

\* The loop over e["sets"]: best after the sets of one entry.
RECURSIVE BestOverSets(_, _)
BestOverSets(sets, best) ==
    IF sets = <<>> THEN best
    ELSE LET est == estimate_1rm(Head(sets).weight, Head(sets).reps)
         IN  BestOverSets(Tail(sets),
                          IF best = None \/ RLt(best, est) THEN est ELSE best)

\* The loop over workout_dict["exercises"].
RECURSIVE BestOverExercises(_, _, _)
BestOverExercises(exercises, exercise_name, best) ==
    IF exercises = <<>> THEN best
    ELSE LET e == Head(exercises)
         IN  BestOverExercises(Tail(exercises), exercise_name,
                 IF lower(e.name) = lower(exercise_name)
                 THEN BestOverSets(e.sets, best)
                 ELSE best)

RECURSIVE BestFirstOnly(_, _)
BestFirstOnly(exercises, exercise_name) ==
    IF exercises = <<>> THEN None
    ELSE IF lower(Head(exercises).name) = lower(exercise_name)
         THEN BestOverSets(Head(exercises).sets, None)
         ELSE BestFirstOnly(Tail(exercises), exercise_name)

best_1rm_first_match(workout_dict, exercise_name) ==
    BestFirstOnly(workout_dict.exercises, exercise_name)

best_1rm_for_workout(workout_dict, exercise_name) ==
    BestOverExercises(workout_dict.exercises, exercise_name, None)

\* datetime.fromisoformat on the ISO date strings of the model; a datetime
\* is <<year, month, day>>, compared lexicographically.
fromisoformat(s) ==
    CASE s = "2024-01-01" -> <<2024, 1, 1>>
      [] s = "2024-01-08" -> <<2024, 1, 8>>
      [] s = "2023-12-25" -> <<2023, 12, 25>>

DateLt(a, b) ==
    \/ a[1] < b[1]
    \/ a[1] = b[1] /\ a[2] < b[2]
    \/ a[1] = b[1] /\ a[2] = b[2] /\ a[3] < b[3]

\* Python's truth value of best_1rm_for_workout's result: None and 0.0 are false.
Truthy(val) == val # None /\ val[1] # 0

\* sorted(series, key=lambda x: x[0]): a stable sort, modelled as the
\* insertion of each point after the points that do not compare greater.
RECURSIVE InsertByDate(_, _)
InsertByDate(sorted, p) ==
    IF sorted = <<>> THEN <<p>>
    ELSE IF DateLt(p.date, Head(sorted).date)
         THEN <<p>> \o sorted
         ELSE <<Head(sorted)>> \o InsertByDate(Tail(sorted), p)

RECURSIVE SortedByDate(_)
SortedByDate(series) ==
    IF series = <<>> THEN <<>>
    ELSE InsertByDate(SortedByDate(SubSeq(series, 1, Len(series) - 1)),
                      series[Len(series)])

\* The loop of get_1rm_timeseries that builds the unsorted series.
RECURSIVE SeriesOf(_, _)
SeriesOf(workouts, exercise_name) ==
    IF workouts = <<>> THEN <<>>
    ELSE LET w == Head(workouts)
             val == best_1rm_for_workout(w, exercise_name)
             rest == SeriesOf(Tail(workouts), exercise_name)
         IN  IF Truthy(val)
             THEN <<[date |-> fromisoformat(w.workout_date), val |-> val]>> \o rest
             ELSE rest

get_1rm_timeseries_unsorted(workouts, exercise_name) == SeriesOf(workouts, exercise_name)

get_1rm_timeseries(workouts, exercise_name) ==
    SortedByDate(SeriesOf(workouts, exercise_name))

\* x = np.arange(len(y)), and the sums the least-squares fit is made of.
XSeq(n) == [i \in 1..n |-> Q(i - 1)]
Prods(x, y) == [i \in 1..Len(x) |-> RMul(x[i], y[i])]

PolyfitCoefLowFirst(y) ==
    LET n == Q(Len(y))
        x == XSeq(Len(y))
        sx == SumSeq(x)
        sy == SumSeq(y)
        slope == RDiv(RSub(RMul(n, SumSeq(Prods(x, y))), RMul(sx, sy)),
                      RSub(RMul(n, SumSeq(Prods(x, x))), RMul(sx, sx)))
    IN  <<RDiv(RSub(sy, RMul(slope, sx)), n), slope>>

\* The coefficients <<slope, intercept>> np.polyfit(x, y, 1) returns for two
\* or more points at x = 0, 1, ..., n - 1: the solution of the normal
\* equations of the least-squares problem.
PolyfitCoef(y) ==
    LET n == Q(Len(y))
        x == XSeq(Len(y))
        sx == SumSeq(x)
        sy == SumSeq(y)
        sxx == SumSeq(Prods(x, x))
        sxy == SumSeq(Prods(x, y))
        slope == RDiv(RSub(RMul(n, sxy), RMul(sx, sy)),
                      RSub(RMul(n, sxx), RMul(sx, sx)))
        intercept == RDiv(RSub(sy, RMul(slope, sx)), n)
    IN  <<slope, intercept>>

\* np.polyfit(x, y, 1), as the set of outcomes a build can give. An empty x
\* raises TypeError. A single point at x = 0 makes the column scaling divide
\* 0 by 0, and the LAPACK least-squares solver then either fails
\* (LinAlgError) or hands back NaN coefficients.
polyfit(y) ==
    IF Len(y) = 0 THEN {[exc |-> "TypeError", coef |-> None]}
    ELSE IF Len(y) = 1
         THEN {[exc |-> "LinAlgError", coef |-> None],
               [exc |-> "none", coef |-> <<NaN, NaN>>]}
         ELSE {[exc |-> "none", coef |-> PolyfitCoef(y)]}

Values(timeseries) == [i \in 1..Len(timeseries) |-> timeseries[i].val]

\* What detect_plateau gives for one outcome of the fit.
PlateauOutcome(f, slope_threshold) ==
    IF f.exc # "none"
    THEN [exc |-> f.exc, plateau |-> FALSE, slope |-> None, fitted |-> TRUE]
    ELSE [exc |-> "none", plateau |-> RLt(f.coef[1], slope_threshold),
          slope |-> f.coef[1], fitted |-> TRUE]

detect_plateau_off(timeseries, min_points, slope_threshold) ==
    IF Len(timeseries) < min_points - 1
    THEN {[exc |-> "none", plateau |-> FALSE, slope |-> None, fitted |-> FALSE]}
    ELSE {PlateauOutcome(f, slope_threshold) : f \in polyfit(Values(timeseries))}

detect_plateau_abs(timeseries, min_points, slope_threshold) ==
    IF Len(timeseries) < min_points
    THEN {[exc |-> "none", plateau |-> FALSE, slope |-> None, fitted |-> FALSE]}
    ELSE {[o EXCEPT !.plateau = o.exc = "none" /\ RLt(RAbs(o.slope), slope_threshold)] :
            o \in {PlateauOutcome(f, slope_threshold) : f \in polyfit(Values(timeseries))}}

\* analytics.detect_plateau: the set of its outcomes (one, except where the
\* fit is degenerate). fitted records whether np.polyfit was called.
detect_plateau(timeseries, min_points, slope_threshold) ==
    IF Len(timeseries) < min_points
    THEN {[exc |-> "none", plateau |-> FALSE, slope |-> None, fitted |-> FALSE]}
    ELSE {PlateauOutcome(f, slope_threshold) : f \in polyfit(Values(timeseries))}

DefaultMinPoints == 5
DefaultSlopeThreshold == R(1, 100)

(***************************************************************************)
(* cli.py: detect_plateau_and_growth                                       *)
(***************************************************************************)
GrowthMinPoints == 3
GrowthSessionsPerMonth == 4

detect_plateau_and_growth_oneside(one_rm_timeseries) ==
    IF Len(one_rm_timeseries) < GrowthMinPoints
    THEN [plateau |-> FALSE, growth |-> Q(0)]
    ELSE LET slope == PolyfitCoef(Values(SortedByDate(one_rm_timeseries)))[1]
         IN  [plateau |-> RLt(slope, R(1, 100)),
              growth |-> RMul(slope, Q(GrowthSessionsPerMonth))]

\* With three or more points the fit has exactly one outcome.
detect_plateau_and_growth(one_rm_timeseries) ==
    IF Len(one_rm_timeseries) < GrowthMinPoints
    THEN [plateau |-> FALSE, growth |-> Q(0)]
    ELSE LET sorted_series == SortedByDate(one_rm_timeseries)
             slope == PolyfitCoef(Values(sorted_series))[1]
         IN  [plateau |-> RLt(RAbs(slope), R(1, 100)),
              growth |-> RMul(slope, Q(GrowthSessionsPerMonth))]

(***************************************************************************)
(* Inputs of the analytics functions.                                      *)
(***************************************************************************)
MaxReps == 12

EstWeights == {Q(0), R(1, 2), Q(60), R(998, 10), Q(100)}
EstReps == 0..MaxReps

NameBp == <<"b", "p">>
NameBP == <<"B", "P">>
NameB == <<"b">>
NameDomain == {NameBp, NameBP, NameB}

Set0x10 == [weight |-> Q(0), reps |-> 10]
Set60x10 == [weight |-> Q(60), reps |-> 10]
Set100x0 == [weight |-> Q(100), reps |-> 0]
SetDomain == {Set0x10, Set60x10, Set100x0}

\* Every list of up to MaxSets sets, and two lists of two sets.
SetLists ==
    SeqsUpTo(SetDomain, MaxSets) \cup {<<Set60x10, Set100x0>>, <<Set100x0, Set60x10>>}
ExerciseDomain == [name : NameDomain, sets : SetLists]

IsoDates == {"2023-12-25", "2024-01-01", "2024-01-08"}

\* The exercise lists of the workouts a time-series is built from: no entry,
\* a positive best, another positive best under the other casing, and a
\* best of zero.
TsExerciseLists ==
    {<<>>,
     <<[name |-> NameBp, sets |-> <<Set60x10>>]>>,
     <<[name |-> NameBP, sets |-> <<Set100x0, Set60x10>>]>>,
     <<[name |-> NameBp, sets |-> <<Set0x10>>]>>}

TsWorkoutDomain == [workout_date : IsoDates, exercises : TsExerciseLists]

SeriesDates == {<<2024, 1, 1>>, <<2024, 1, 8>>}
SeriesValues == {Q(100), R(998, 10), R(1001, 10), Q(102), Q(104)}
PointDomain == [date : SeriesDates, val : SeriesValues]
SeriesDomain == SeqsUpTo(PointDomain, MaxPoints)

\* The time-series given to detect_plateau are in date order: one session a
\* week, or sessions at irregular intervals.
DatePatterns == {"weekly", "irregular"}
PatternDate(p, i) ==
    IF p = "weekly" THEN <<2024, 1, 1 + 7 * (i - 1)>> ELSE <<2024, 1, i * i>>
PlateauSeriesDomain ==
    {[i \in 1..Len(v) |-> [date |-> PatternDate(p, i), val |-> v[i]]] :
        p \in DatePatterns, v \in SeqsUpTo(SeriesValues, MaxPoints)}

MinPointsDomain == {0, 1, 2, 3, DefaultMinPoints}
ThresholdDomain == {DefaultSlopeThreshold, Q(0), Q(-1), Q(3)}

Estimate1rmArgs ==
    [op : {"estimate_1rm", "cli.estimate_1rm"}, weight : EstWeights, reps : EstReps]
Best1rmArgs ==
    [op : {"best_1rm_for_workout"},
     workout_dict : [workout_date : {"2024-01-01"},
                     exercises : SeqsUpTo(ExerciseDomain, MaxExercises)],
     exercise_name : {NameBP, NameB}]
TimeseriesArgs ==
    [op : {"get_1rm_timeseries"},
     workouts : SeqsUpTo(TsWorkoutDomain, MaxWorkouts),
     exercise_name : {NameBP, NameB}]
DetectPlateauArgs ==
    [op : {"detect_plateau"}, timeseries : PlateauSeriesDomain,
     min_points : MinPointsDomain, slope_threshold : ThresholdDomain]
GrowthArgs ==
    [op : {"detect_plateau_and_growth"}, one_rm_timeseries : SeriesDomain]

Pending == [state |-> "pending"]
Returned(v) == [state |-> "returned", val |-> v]

NoFile == [exists |-> FALSE, text |-> <<>>]
NoResp == [op |-> "none"]

\* The threads that may call save_workout at the same time; none has called.
Threads == 1..MaxThreads
NoCalls == [t \in Threads |-> [pc |-> "idle"]]

(***************************************************************************)
(* The analytics functions applied to their inputs.                        *)
(***************************************************************************)
InitAnalytics ==
    /\ arg \in Estimate1rmArgs \cup Best1rmArgs \cup TimeseriesArgs
                \cup DetectPlateauArgs \cup GrowthArgs
    /\ res = Pending
    /\ store = NoFile
    /\ resp = NoResp
    /\ calls = NoCalls
    /\ saved = <<>>

CallEstimate1rm ==
    /\ res = Pending
    /\ arg.op = "estimate_1rm"
    /\ res' = Returned(estimate_1rm(arg.weight, arg.reps))
    /\ UNCHANGED <<arg, store, resp, calls, saved>>

CallCliEstimate1rm ==
    /\ res = Pending
    /\ arg.op = "cli.estimate_1rm"
    /\ res' = Returned(cli_estimate_1rm(arg.weight, arg.reps))
    /\ UNCHANGED <<arg, store, resp, calls, saved>>

CallBest1rmForWorkout ==
    /\ res = Pending
    /\ arg.op = "best_1rm_for_workout"
    /\ res' = Returned(best_1rm_for_workout(arg.workout_dict, arg.exercise_name))
    /\ UNCHANGED <<arg, store, resp, calls, saved>>

CallGet1rmTimeseries ==
    /\ res = Pending
    /\ arg.op = "get_1rm_timeseries"
    /\ res' = Returned(get_1rm_timeseries(arg.workouts, arg.exercise_name))
    /\ UNCHANGED <<arg, store, resp, calls, saved>>

CallDetectPlateau ==
    /\ res = Pending
    /\ arg.op = "detect_plateau"
    /\ \E o \in detect_plateau(arg.timeseries, arg.min_points, arg.slope_threshold) :
          res' = Returned(o)
    /\ UNCHANGED <<arg, store, resp, calls, saved>>

CallDetectPlateauAndGrowth ==
    /\ res = Pending
    /\ arg.op = "detect_plateau_and_growth"
    /\ res' = Returned(detect_plateau_and_growth(arg.one_rm_timeseries))
    /\ UNCHANGED <<arg, store, resp, calls, saved>>

NextAnalytics ==
    \/ CallEstimate1rm
    \/ CallCliEstimate1rm
    \/ CallBest1rmForWorkout
    \/ CallGet1rmTimeseries
    \/ CallDetectPlateau
    \/ CallDetectPlateauAndGrowth

SpecAnalytics == InitAnalytics /\ [][NextAnalytics]_vars

(***************************************************************************)
(* storage.py: the workout store                                           *)
(***************************************************************************)
MonthNames == <<"January", "February", "March", "April", "May", "June", "July",
                "August", "September", "October", "November", "December">>

\* The decimal digits of n > 0.
RECURSIVE Digits(_)
Digits(n) == IF n < 10 THEN <<n>> ELSE Append(Digits(n \div 10), n % 10)

RECURSIVE ZeroPad(_, _)
ZeroPad(ds, width) == IF Len(ds) >= width THEN ds ELSE ZeroPad(<<0>> \o ds, width)

NumberOf(ds) == LET v[i \in 0..Len(ds)] == IF i = 0 THEN 0 ELSE 10 * v[i - 1] + ds[i]
                IN  v[Len(ds)]

\* date.strftime("%d, %B, %Y"): the day, the month's name and the digits of
\* the year. The C library decides whether %Y pads a year below 1000 with
\* zeros (glibc does not); padYear is that choice.
strftime(d, padYear) ==
    [day |-> d[3], month |-> MonthNames[d[2]],
     year |-> IF padYear THEN ZeroPad(Digits(d[1]), 4) ELSE Digits(d[1])]

\* datetime.strptime(s, "%d, %B, %Y"): %Y matches exactly four digits and
\* %B a month name; anything else raises ValueError.
StrptimeFails(s) ==
    \/ Len(s.year) # 4
    \/ ~\E m \in 1..12 : MonthNames[m] = s.month

strptime(s) ==
    <<NumberOf(s.year), CHOOSE m \in 1..12 : MonthNames[m] = s.month, s.day>>

SetToDict(set) == [reps |-> set.reps, weight |-> set.weight, rir |-> set.rir]

ExerciseToDict(exercise) ==
    [exercise_name |-> exercise.exercise_name,
     muscle_group |-> exercise.muscle_group,
     rest_time |-> exercise.rest_time,
     sets |-> [i \in 1..Len(exercise.sets) |-> SetToDict(exercise.sets[i])]]

workout_to_dict(workout, padYear) ==
    [workout_title |-> workout.workout_title,
     workout_date |-> strftime(workout.workout_date, padYear),
     workout_time |-> workout.workout_time,
     exercises |-> [i \in 1..Len(workout.exercises) |-> ExerciseToDict(workout.exercises[i])]]

\* json.dumps(data, indent=2): the JSON text of the list of workout dicts.
\* None is written as null, an int as its decimal digits, a float as the
\* shortest decimal that reads back as the same float, a str between quotes;
\* a dict becomes an object with the same keys and a list an array.
JsonNull == "null"
JsonOfOptional(v) == IF v = None THEN JsonNull ELSE v
JsonOfInt(n) == [digits |-> Digits(n)]
JsonOfFloat(x) == [float |-> x]
JsonOfStr(str) == [quoted |-> str]

JsonOfSet(s) ==
    [reps |-> JsonOfInt(s.reps), weight |-> JsonOfFloat(s.weight),
     rir |-> JsonOfOptional(s.rir)]

JsonOfExercise(e) ==
    [exercise_name |-> JsonOfStr(e.exercise_name),
     muscle_group |-> JsonOfStr(e.muscle_group),
     rest_time |-> JsonOfOptional(e.rest_time),
     sets |-> [i \in 1..Len(e.sets) |-> JsonOfSet(e.sets[i])]]

JsonOfWorkout(w) ==
    [workout_title |-> JsonOfStr(w.workout_title),
     workout_date |-> JsonOfStr(w.workout_date),
     workout_time |-> JsonOfOptional(w.workout_time),
     exercises |-> [i \in 1..Len(w.exercises) |-> JsonOfExercise(w.exercises[i])]]

json_dumps(data) == [i \in 1..Len(data) |-> JsonOfWorkout(data[i])]

\* json.loads(text): the Python value of each JSON value.
OptionalOfJson(j) == IF j = JsonNull THEN None ELSE j

SetOfJson(j) ==
    [reps |-> NumberOf(j.reps.digits), weight |-> j.weight.float,
     rir |-> OptionalOfJson(j.rir)]

ExerciseOfJson(j) ==
    [exercise_name |-> j.exercise_name.quoted,
     muscle_group |-> j.muscle_group.quoted,
     rest_time |-> OptionalOfJson(j.rest_time),
     sets |-> [i \in 1..Len(j.sets) |-> SetOfJson(j.sets[i])]]

WorkoutOfJson(j) ==
    [workout_title |-> j.workout_title.quoted,
     workout_date |-> j.workout_date.quoted,
     workout_time |-> OptionalOfJson(j.workout_time),
     exercises |-> [i \in 1..Len(j.exercises) |-> ExerciseOfJson(j.exercises[i])]]

json_loads_reversed(text) == [i \in 1..Len(text) |-> WorkoutOfJson(text[Len(text) + 1 - i])]

json_loads(text) == [i \in 1..Len(text) |-> WorkoutOfJson(text[i])]

\* storage.load_workouts: [] when the file is missing, else the parsed file.
load_workouts == IF store.exists THEN json_loads(store.text) ELSE <<>>

\* The list save_workout starts from: [] when the file is missing or empty,
\* else the parsed file. An empty file is the text without workouts.
ReadData == IF store.exists THEN json_loads(store.text) ELSE <<>>

(***************************************************************************)
(* The workouts that are saved.                                            *)
(***************************************************************************)
NameSq == <<"s", "q">>

SetEntry(weight, reps) == [reps |-> reps, weight |-> weight, rir |-> None]
ExerciseEntry(name, muscle, sets) ==
    [exercise_name |-> name, muscle_group |-> muscle, sets |-> sets, rest_time |-> None]

\* A bench press under one casing of its name and muscle group, with zero
\* reps; a bodyweight squat (weight 0); two loaded exercises of two muscle
\* groups; an exercise without sets.
SavedExerciseLists ==
    {<<ExerciseEntry(NameBP, "chest", <<SetEntry(Q(100), 0)>>)>>,
     <<ExerciseEntry(NameSq, "Legs", <<SetEntry(Q(0), 10)>>)>>,
     <<ExerciseEntry(NameBp, "Chest", <<SetEntry(Q(60), 10), SetEntry(Q(100), 0)>>),
       ExerciseEntry(NameSq, "Legs", <<SetEntry(Q(100), 10)>>)>>,
     <<ExerciseEntry(NameBp, "Chest", <<>>)>>}

SavedDates == {<<2024, 1, 1>>, <<2024, 1, 8>>, <<999, 1, 1>>}

WorkoutEntries ==
    [workout_title : {"Push Day"}, workout_date : SavedDates,
     exercises : SavedExerciseLists, workout_time : {None}]

MuscleGroups == {"Chest", "chest", "Legs"}
RequestedNames == {NameBP, NameSq, NameB}

(***************************************************************************)
(* cli.py: view_performance_by_muscle                                      *)
(***************************************************************************)
\* The value the defaultdict makes for a muscle group on first access.
NewMuscle ==
    [exercises |-> <<>>, total_volume |-> Q(0), max_1rm |-> Q(0),
     one_rm_timeseries |-> <<>>]

\* muscle_data[muscle], which creates the entry when it is missing.
Touch(muscle_data, muscle) ==
    IF muscle \in DOMAIN muscle_data THEN muscle_data
    ELSE muscle_data @@ (muscle :> NewMuscle)

\* exercises[exercise_name].append(one_rm) on a defaultdict(list).
AppendOneRm(exercises, exercise_name, one_rm) ==
    IF exercise_name \in DOMAIN exercises
    THEN [exercises EXCEPT ![exercise_name] = Append(@, one_rm)]
    ELSE exercises @@ (exercise_name :> <<one_rm>>)

\* The body of the loop over exercise['sets'] for one set.
AccSet(muscle_data, muscle, exercise_name, s) ==
    LET md == Touch(muscle_data, muscle)
        one_rm == cli_estimate_1rm(s.weight, s.reps)
    IN  [md EXCEPT ![muscle] =
            [@ EXCEPT !.total_volume = RAdd(@, RMul(s.weight, Q(s.reps))),
                      !.exercises = AppendOneRm(@, exercise_name, one_rm),
                      !.max_1rm = IF RLt(@, one_rm) THEN one_rm ELSE @]]

RECURSIVE AccSets(_, _, _, _)
AccSets(muscle_data, muscle, exercise_name, sets) ==
    IF sets = <<>> THEN muscle_data
    ELSE AccSets(AccSet(muscle_data, muscle, exercise_name, Head(sets)),
                 muscle, exercise_name, Tail(sets))

\* best_1rm_workout after the sets of one exercise, starting from 0.
RECURSIVE BestOfExercise(_, _)
BestOfExercise(sets, best) ==
    IF sets = <<>> THEN best
    ELSE LET one_rm == cli_estimate_1rm(Head(sets).weight, Head(sets).reps)
         IN  BestOfExercise(Tail(sets), IF RLt(best, one_rm) THEN one_rm ELSE best)

AccExerciseEager(muscle_data, workout_date, exercise) ==
    LET muscle == exercise.muscle_group
        md == AccSets(Touch(muscle_data, muscle), muscle, exercise.exercise_name, exercise.sets)
        best_1rm_workout == BestOfExercise(exercise.sets, Q(0))
    IN  IF RLt(Q(0), best_1rm_workout)
        THEN [md EXCEPT ![muscle].one_rm_timeseries =
                 Append(@, [date |-> workout_date, val |-> best_1rm_workout])]
        ELSE md

\* The body of the loop over workout['exercises'] for one exercise.
AccExercise(muscle_data, workout_date, exercise) ==
    LET muscle == exercise.muscle_group
        md == AccSets(muscle_data, muscle, exercise.exercise_name, exercise.sets)
        best_1rm_workout == BestOfExercise(exercise.sets, Q(0))
    IN  IF RLt(Q(0), best_1rm_workout)
        THEN [md EXCEPT ![muscle].one_rm_timeseries =
                 Append(@, [date |-> workout_date, val |-> best_1rm_workout])]
        ELSE md

RECURSIVE AccExercises(_, _, _)
AccExercises(muscle_data, workout_date, exercises) ==
    IF exercises = <<>> THEN muscle_data
    ELSE AccExercises(AccExercise(muscle_data, workout_date, Head(exercises)),
                      workout_date, Tail(exercises))

\* The loop over the loaded workouts; one whose date does not parse is
\* skipped (except ValueError: continue).
RECURSIVE AccWorkouts(_, _)
AccWorkouts(muscle_data, workouts) ==
    IF workouts = <<>> THEN muscle_data
    ELSE LET workout == Head(workouts)
         IN  AccWorkouts(IF StrptimeFails(workout.workout_date) THEN muscle_data
                         ELSE AccExercises(muscle_data, strptime(workout.workout_date),
                                           workout.exercises),
                         Tail(workouts))

\* What the display loop prints for one muscle group.
MuscleReport(data) ==
    LET trend == detect_plateau_and_growth(data.one_rm_timeseries)
    IN  [total_volume |-> data.total_volume,
         max_1rm |-> data.max_1rm,
         plateau |-> trend.plateau,
         growth |-> trend.growth,
         exercises |-> [n \in DOMAIN data.exercises |->
                          RDiv(SumSeq(data.exercises[n]), Q(Len(data.exercises[n])))]]

view_performance_by_muscle(workouts) ==
    IF workouts = <<>>
    THEN [op |-> "view_performance_by_muscle", shown |-> FALSE,
          muscle_data |-> <<>>, report |-> <<>>]
    ELSE LET muscle_data == AccWorkouts(<<>>, workouts)
         IN  [op |-> "view_performance_by_muscle", shown |-> TRUE,
              muscle_data |-> muscle_data,
              report |-> [m \in DOMAIN muscle_data |-> MuscleReport(muscle_data[m])]]

(***************************************************************************)
(* api.py: the handlers that read the store                                *)
(***************************************************************************)
AnyDateFails(workouts_data) ==
    \E i \in 1..Len(workouts_data) : StrptimeFails(workouts_data[i].workout_date)

\* The WorkoutEntry objects the handlers build from the loaded dicts (all
\* dates parse).
ToEntries(workouts_data) ==
    [i \in 1..Len(workouts_data) |->
        [workout_title |-> workouts_data[i].workout_title,
         workout_date |-> strptime(workouts_data[i].workout_date),
         exercises |-> [j \in 1..Len(workouts_data[i].exercises) |->
                          ExerciseEntry(workouts_data[i].exercises[j].exercise_name,
                                        workouts_data[i].exercises[j].muscle_group,
                                        workouts_data[i].exercises[j].sets)],
         workout_time |-> workouts_data[i].workout_time]]

\* analytics.get_1rm_timeseries_obj is imported by api.py but not defined in
\* analytics.py: the Time-Series Builder of the specification, applied to
\* WorkoutEntry objects.
RECURSIVE SeriesOfObj(_, _)
SeriesOfObj(workouts, exercise_name) ==
    IF workouts = <<>> THEN <<>>
    ELSE LET w == Head(workouts)
             named == [j \in 1..Len(w.exercises) |->
                          [name |-> w.exercises[j].exercise_name, sets |-> w.exercises[j].sets]]
             val == BestOverExercises(named, exercise_name, None)
             rest == SeriesOfObj(Tail(workouts), exercise_name)
         IN  IF Truthy(val)
             THEN <<[date |-> w.workout_date, val |-> val]>> \o rest
             ELSE rest

get_1rm_timeseries_obj(workouts, exercise_name) ==
    SortedByDate(SeriesOfObj(workouts, exercise_name))

\* d.isoformat() of a date: year, month and day in fixed width.
isoformat(d) == <<ZeroPad(Digits(d[1]), 4), ZeroPad(Digits(d[2]), 2), ZeroPad(Digits(d[3]), 2)>>

Ok200(body) == [status |-> 200, raised |-> "none", body |-> body]
Raises(exception) == [status |-> 0, raised |-> exception, body |-> None]

\* The return statement of get_exercise_analytics for one outcome of
\* detect_plateau.
AnalyticsBody(exercise_name, timeseries, o) ==
    [exercise_name |-> exercise_name,
     timeseries |-> [i \in 1..Len(timeseries) |->
                       [date |-> isoformat(timeseries[i].date), oneRM |-> timeseries[i].val]],
     plateau_detected |-> o.plateau,
     slope |-> IF o.slope # None /\ o.slope # Q(0) THEN o.slope ELSE None,
     latest_1rm |-> timeseries[Len(timeseries)].val]

\* The body of the try block of get_exercise_analytics: the set of ways it
\* ends, each a returned body or a raised exception.
ExerciseAnalyticsTry(workouts_data, exercise_name) ==
    IF AnyDateFails(workouts_data) THEN {Raises("ValueError")}
    ELSE LET timeseries == get_1rm_timeseries_obj(ToEntries(workouts_data), exercise_name)
         IN  IF timeseries = <<>>
             THEN {Raises("HTTPException(404, No data found for this exercise)")}
             ELSE {IF o.exc # "none" THEN Raises(o.exc)
                   ELSE Ok200(AnalyticsBody(exercise_name, timeseries, o)) :
                      o \in detect_plateau(timeseries, DefaultMinPoints, DefaultSlopeThreshold)}

\* except Exception as e: raise HTTPException(status_code=500, detail=str(e)).
\* HTTPException is an Exception, so the handler's own 404 is caught too.
ExceptException(outcome) ==
    IF outcome.raised = "none" THEN outcome
    ELSE [status |-> 500, raised |-> outcome.raised, body |-> None]

get_exercise_analytics(workouts_data, exercise_name) ==
    {ExceptException(outcome) : outcome \in ExerciseAnalyticsTry(workouts_data, exercise_name)}

\* The loops of get_summary_stats over the sets of all exercises.
RECURSIVE VolumeOfSets(_)
VolumeOfSets(sets) ==
    IF sets = <<>> THEN Q(0)
    ELSE RAdd(RMul(Head(sets).weight, Q(Head(sets).reps)), VolumeOfSets(Tail(sets)))

RECURSIVE VolumeOfExercises(_)
VolumeOfExercises(exercises) ==
    IF exercises = <<>> THEN Q(0)
    ELSE RAdd(VolumeOfSets(Head(exercises).sets), VolumeOfExercises(Tail(exercises)))

RECURSIVE VolumeOfWorkouts(_)
VolumeOfWorkouts(workouts_data) ==
    IF workouts_data = <<>> THEN Q(0)
    ELSE RAdd(VolumeOfExercises(Head(workouts_data).exercises),
              VolumeOfWorkouts(Tail(workouts_data)))

ExerciseNames(workouts_data) ==
    UNION {{workouts_data[i].exercises[j].exercise_name :
               j \in 1..Len(workouts_data[i].exercises)} : i \in 1..Len(workouts_data)}

SummaryStatsTry(workouts_data) ==
    IF workouts_data = <<>>
    THEN Ok200([total_workouts |-> 0, total_exercises |-> 0, total_volume |-> Q(0)])
    ELSE IF AnyDateFails(workouts_data) THEN Raises("ValueError")
         ELSE Ok200([total_workouts |-> Len(workouts_data),
                     unique_exercises |-> Cardinality(ExerciseNames(workouts_data)),
                     total_volume |-> VolumeOfWorkouts(workouts_data)])

get_summary_stats(workouts_data) == ExceptException(SummaryStatsTry(workouts_data))

(***************************************************************************)
(* The store and the requests on it.                                       *)
(***************************************************************************)
Init ==
    /\ store = NoFile
    /\ resp = NoResp
    /\ arg = [op |-> "none"]
    /\ res = Pending
    /\ calls = NoCalls
    /\ saved = <<>>

\* storage.save_workout, called by the CLI menu and by POST /api/workouts.
SaveWorkout ==
    \E workout \in WorkoutEntries :
      \E padYear \in (IF workout.workout_date[1] < 1000 THEN BOOLEAN ELSE {TRUE}) :
        /\ Len(ReadData) < MaxStore
        /\ store' = [exists |-> TRUE,
                     text |-> json_dumps(Append(ReadData, workout_to_dict(workout, padYear)))]
        /\ saved' = Append(saved, workout_to_dict(workout, padYear))
        /\ resp' = [op |-> "save_workout"]
        /\ UNCHANGED <<arg, res, calls>>

\* storage.clear_all_workouts
ClearAllWorkouts ==
    /\ store' = IF store.exists THEN NoFile ELSE store
    /\ saved' = <<>>
    /\ resp' = [op |-> "clear_all_workouts"]
    /\ UNCHANGED <<arg, res, calls>>

\* storage.load_workouts, as called by view_workouts and GET /api/workouts
LoadWorkouts ==
    /\ resp' = [op |-> "load_workouts", data |-> load_workouts]
    /\ UNCHANGED <<store, arg, res, calls, saved>>

ViewPerformanceByMuscle ==
    /\ resp' = view_performance_by_muscle(load_workouts)
    /\ UNCHANGED <<store, arg, res, calls, saved>>

GetSummaryStats ==
    /\ resp' = [op |-> "get_summary_stats", http |-> get_summary_stats(load_workouts)]
    /\ UNCHANGED <<store, arg, res, calls, saved>>

GetExerciseAnalytics ==
    \E exercise_name \in RequestedNames :
      \E http \in get_exercise_analytics(load_workouts, exercise_name) :
        /\ resp' = [op |-> "get_exercise_analytics", exercise_name |-> exercise_name,
                    http |-> http]
        /\ UNCHANGED <<store, arg, res, calls, saved>>

Next ==
    \/ SaveWorkout
    \/ ClearAllWorkouts
    \/ LoadWorkouts
    \/ ViewPerformanceByMuscle
    \/ GetSummaryStats
    \/ GetExerciseAnalytics

Spec == Init /\ [][Next]_vars

(***************************************************************************)
(* save_workout called by several threads at once. POST /api/workouts is a *)
(* plain def handler, which the server runs on a pool of worker threads,   *)
(* and save_workout takes no lock: the steps of one call are its accesses  *)
(* to the file, and the steps of different calls interleave freely.        *)
(***************************************************************************)
ConcurrentWorkouts ==
    [workout_title : {"Push Day"}, workout_date : {<<2024, 1, 1>>, <<2024, 1, 8>>},
     exercises : {<<ExerciseEntry(NameBP, "chest", <<SetEntry(Q(100), 0)>>)>>,
                  <<ExerciseEntry(NameSq, "Legs", <<SetEntry(Q(0), 10)>>)>>},
     workout_time : {None}]

\* create_workout builds the WorkoutEntry and calls save_workout.
CallSaveWorkout(t) ==
    /\ calls[t].pc = "idle"
    /\ \E workout \in ConcurrentWorkouts :
          calls' = [calls EXCEPT ![t] = [pc |-> "read", workout |-> workout]]
    /\ UNCHANGED <<store, resp, arg, res, saved>>

\* save_workout, the read: data is the parsed file, or [] when the file is
\* missing or empty.
SaveRead(t) ==
    /\ calls[t].pc = "read"
    /\ calls' = [calls EXCEPT ![t] = [pc |-> "open", workout |-> calls[t].workout,
                                      data |-> ReadData]]
    /\ UNCHANGED <<store, resp, arg, res, saved>>

\* save_workout, the append, and write_text opening the file for writing,
\* which truncates it.
SaveOpen(t) ==
    /\ calls[t].pc = "open"
    /\ calls' = [calls EXCEPT ![t] =
                    [pc |-> "write", workout |-> calls[t].workout,
                     data |-> Append(calls[t].data,
                                     workout_to_dict(calls[t].workout, TRUE))]]
    /\ store' = [exists |-> TRUE, text |-> <<>>]
    /\ UNCHANGED <<resp, arg, res, saved>>

\* save_workout, write_text writing the JSON text of data; the call returns.
SaveWrite(t) ==
    /\ calls[t].pc = "write"
    /\ store' = [exists |-> TRUE, text |-> json_dumps(calls[t].data)]
    /\ saved' = Append(saved, workout_to_dict(calls[t].workout, TRUE))
    /\ calls' = [calls EXCEPT ![t] = [pc |-> "done", workout |-> calls[t].workout]]
    /\ UNCHANGED <<resp, arg, res>>

NextConcurrent ==
    \E t \in Threads :
        \/ CallSaveWorkout(t)
        \/ SaveRead(t)
        \/ SaveOpen(t)
        \/ SaveWrite(t)

SpecConcurrent == Init /\ [][NextConcurrent]_vars

(***************************************************************************)
(* GET /api/analytics/{exercise_name} on the store of a training history:  *)
(* up to MaxHistory workouts saved one after the other, one a month.       *)
(***************************************************************************)
HistoryDate(i) == <<2024, i, 1>>

\* A session with a bench press estimated at 100 kg, one estimated at 80 kg,
\* and a session without bench press.
HistoryExerciseLists ==
    {<<ExerciseEntry(NameBP, "Chest", <<SetEntry(Q(100), 0)>>)>>,
     <<ExerciseEntry(NameBp, "Chest", <<SetEntry(Q(60), 10)>>)>>,
     <<ExerciseEntry(NameSq, "Legs", <<SetEntry(Q(100), 10)>>)>>}

HistoryWorkout(i, exercises) ==
    [workout_title |-> "Push Day", workout_date |-> HistoryDate(i),
     exercises |-> exercises, workout_time |-> None]

\* The lists of dicts save_workout has appended, in the order of the saves.
Histories ==
    {[i \in 1..Len(h) |-> workout_to_dict(HistoryWorkout(i, h[i]), TRUE)] :
        h \in SeqsUpTo(HistoryExerciseLists, MaxHistory)}

InitHistory ==
    /\ \E data \in Histories :
          /\ store = IF data = <<>> THEN NoFile
                     ELSE [exists |-> TRUE, text |-> json_dumps(data)]
          /\ saved = data
    /\ resp = NoResp
    /\ arg = [op |-> "none"]
    /\ res = Pending
    /\ calls = NoCalls

NextHistory == GetExerciseAnalytics

SpecHistory == InitHistory /\ [][NextHistory]_vars

(***************************************************************************)
(* Properties of the analytics functions.                                  *)
(***************************************************************************)
Done(op) == arg.op = op /\ res.state = "returned"

\* The Epley estimate as the reduced fraction weight * (30 + reps) / 30.
Epley(weight, reps) == R(weight[1] * (30 + reps), weight[2] * 30)

\* The estimates of all sets of all entries whose name equals the requested
\* one once both are lowercased.
MatchingEstimates(workout_dict, exercise_name) ==
    LET ex == workout_dict.exercises
        matching == {ex[i] : i \in {j \in 1..Len(ex) : lower(ex[j].name) = lower(exercise_name)}}
    IN  UNION {{Epley(e.sets[k].weight, e.sets[k].reps) : k \in 1..Len(e.sets)} : e \in matching}

\* C1: best_1rm_for_workout returns the maximum estimate over every set of
\* every entry whose lowercased name equals the lowercased requested name,
\* and None exactly when there is no such set.
C1_BestIsMaxOfMatching ==
    Done("best_1rm_for_workout") =>
        LET E == MatchingEstimates(arg.workout_dict, arg.exercise_name)
        IN  /\ (res.val = None) <=> (E = {})
            /\ E # {} => /\ res.val \in E
                         /\ \A v \in E : RLe(v, res.val)

\* Two entries under different casings both match the request, and the
\* largest estimate over the three sets of the two is returned.
C1_Witness ==
    /\ Done("best_1rm_for_workout")
    /\ Len(arg.workout_dict.exercises) = 2
    /\ arg.workout_dict.exercises[1].name = NameBp
    /\ arg.workout_dict.exercises[2].name = NameBP
    /\ arg.workout_dict.exercises[1].sets = <<Set60x10>>
    /\ arg.workout_dict.exercises[2].sets = <<Set100x0, Set60x10>>
    /\ arg.exercise_name = NameBP
    /\ res.val = Q(100)

\* The points of the workouts whose best estimate is present and non-zero,
\* in input order.
QualifyingPoints(workouts, exercise_name) ==
    LET Best(i) == best_1rm_for_workout(workouts[i], exercise_name)
        idx == {i \in 1..Len(workouts) : Best(i) # None /\ Best(i) # Q(0)}
        Nth(k) == CHOOSE i \in idx : Cardinality({j \in idx : j < i}) = k - 1
    IN  [k \in 1..Cardinality(idx) |->
            [date |-> fromisoformat(workouts[Nth(k)].workout_date), val |-> Best(Nth(k))]]

\* The place of point i of s in the stable ascending order by date.
StableRank(s, i) ==
    1 + Cardinality({j \in 1..Len(s) :
                       \/ DateLt(s[j].date, s[i].date)
                       \/ s[j].date = s[i].date /\ j < i})

IsStableSortOf(r, s) ==
    /\ Len(r) = Len(s)
    /\ \A i \in 1..Len(s) : r[StableRank(s, i)] = s[i]

\* C2: get_1rm_timeseries returns one point per workout whose best estimate
\* is present and non-zero and none for the others, ascending by date with
\* equal dates in input order; so at most N points.
C2_TimeseriesIsStableSortOfQualifying ==
    Done("get_1rm_timeseries") =>
        /\ IsStableSortOf(res.val, QualifyingPoints(arg.workouts, arg.exercise_name))
        /\ Len(res.val) <= Len(arg.workouts)
        /\ \A i \in 1..(Len(res.val) - 1) : ~DateLt(res.val[i + 1].date, res.val[i].date)

\* Three qualifying workouts given out of date order, two of them on the
\* same date with different values.
C2_Witness ==
    /\ Done("get_1rm_timeseries")
    /\ Len(arg.workouts) = 3
    /\ arg.workouts[1].workout_date = "2024-01-08"
    /\ arg.workouts[2].workout_date = "2023-12-25"
    /\ arg.workouts[3].workout_date = "2023-12-25"
    /\ Len(res.val) = 3
    /\ res.val[1].val = Q(100)
    /\ res.val[2].val = Q(80)
    /\ res.val[1].date = res.val[2].date

\* A second case of C2: a workout whose best is zero and one without a
\* match give no point.
C2_WitnessExcluded ==
    /\ Done("get_1rm_timeseries")
    /\ Len(arg.workouts) = 3
    /\ Len(res.val) = 1
    /\ best_1rm_for_workout(arg.workouts[1], arg.exercise_name) = Q(0)
    /\ best_1rm_for_workout(arg.workouts[2], arg.exercise_name) = None

\* C3: with fewer than min_points entries detect_plateau returns
\* (False, None) whatever the values, raises nothing and fits no line.
C3_InsufficientHistory ==
    (Done("detect_plateau") /\ Len(arg.timeseries) < arg.min_points) =>
        res.val = [exc |-> "none", plateau |-> FALSE, slope |-> None, fitted |-> FALSE]

\* A rising two-point series against a minimum of three points.
C3_Witness ==
    /\ Done("detect_plateau")
    /\ arg.min_points = 3
    /\ Values(arg.timeseries) = <<Q(100), Q(104)>>
    /\ res.val.plateau = FALSE
    /\ res.val.slope = None

\* The ordinary-least-squares slope of y against 0, 1, ..., n - 1 (n >= 2):
\* the covariance of position and value over the variance of position.
Mean(s) == RDiv(SumSeq(s), Q(Len(s)))
OlsSlope(y) ==
    LET x == XSeq(Len(y))
        mx == Mean(x)
        my == Mean(y)
        dx == [i \in 1..Len(y) |-> RSub(x[i], mx)]
        dy == [i \in 1..Len(y) |-> RSub(y[i], my)]
    IN  RDiv(SumSeq(Prods(dx, dy)), SumSeq(Prods(dx, dx)))

IsFlat(y) == \A i \in 1..Len(y) : y[i] = y[1]
\* y rises by the same positive step at every position.
LinearStep(y) == RSub(y[2], y[1])
IsRisingLinear(y) ==
    /\ Len(y) >= 2
    /\ RLt(Q(0), LinearStep(y))
    /\ \A i \in 1..(Len(y) - 1) : RSub(y[i + 1], y[i]) = LinearStep(y)

\* What C4 says of a fitted series, given the thresholds at which the
\* flat and the negative-slope cases are claimed.
PlateauContract(flatFrom, negativeFrom) ==
    \A y \in {Values(arg.timeseries)} : \A o \in {res.val} :
        /\ o.exc = "none"
        /\ IsNum(o.slope)
        /\ o.slope = OlsSlope(y)
        /\ o.plateau <=> RLt(o.slope, arg.slope_threshold)
        /\ (IsFlat(y) /\ flatFrom) => (o.plateau /\ o.slope = Q(0))
        /\ (IsRisingLinear(y) /\ RLt(arg.slope_threshold, LinearStep(y)))
              => (~o.plateau /\ RLt(Q(0), o.slope))
        /\ (y = <<Q(100), Q(102), Q(104)>> /\ arg.min_points = 3) => o.slope = Q(2)
        /\ (RLt(o.slope, Q(0)) /\ negativeFrom) => o.plateau

\* C4 as stated: for every series with at least min_points entries
\* detect_plateau returns the least-squares slope against position and
\* is_plateau = (slope < slope_threshold); flat gives (True, 0), a linear
\* rise above the threshold (False, slope > 0), a negative slope a plateau.
C4_AsStated ==
    (Done("detect_plateau") /\ Len(arg.timeseries) >= arg.min_points) =>
        PlateauContract(TRUE, TRUE)

\* C4 amended: the same for series of at least min_points and at least two
\* entries, the flat case for slope_threshold > 0 and the negative-slope
\* case for slope_threshold >= 0.
C4_FittedSeries ==
    (/\ Done("detect_plateau")
     /\ Len(arg.timeseries) >= arg.min_points
     /\ Len(arg.timeseries) >= 2) =>
        PlateauContract(RLt(Q(0), arg.slope_threshold), RLe(Q(0), arg.slope_threshold))

\* 100, 102, 104 at irregular dates with min_points = 3: slope 2 per session.
C4_Witness ==
    /\ Done("detect_plateau")
    /\ Values(arg.timeseries) = <<Q(100), Q(102), Q(104)>>
    /\ arg.timeseries[3].date = <<2024, 1, 9>>
    /\ arg.min_points = 3
    /\ arg.slope_threshold = DefaultSlopeThreshold
    /\ res.val.plateau = FALSE
    /\ res.val.slope = Q(2)

IsScenarioC5 ==
    /\ Done("detect_plateau")
    /\ arg.timeseries = <<[date |-> <<2024, 1, 1>>, val |-> Q(100)],
                          [date |-> <<2024, 1, 8>>, val |-> R(998, 10)],
                          [date |-> <<2024, 1, 15>>, val |-> R(1001, 10)]>>
    /\ arg.min_points = 3
    /\ arg.slope_threshold = R(1, 100)

\* C5 as stated: the series 100, 99.8, 100.1 of 2024-01-01, -08, -15 with
\* min_points = 3 and slope_threshold = 0.01 is reported as a plateau.
C5_AsStated == IsScenarioC5 => res.val.plateau = TRUE

\* C5 amended: that series is reported as no plateau, with slope 0.05.
C5_NearFlatIsNoPlateau ==
    IsScenarioC5 => (res.val.exc = "none" /\ res.val.plateau = FALSE /\ res.val.slope = R(1, 20))

C5_Witness == IsScenarioC5 /\ res.val.fitted

\* The values of s in stable ascending date order.
ValuesByDate(s) ==
    [k \in 1..Len(s) |-> s[CHOOSE i \in 1..Len(s) : StableRank(s, i) = k].val]

\* C6: detect_plateau_and_growth returns (False, 0.0) below 3 points, else
\* (abs(slope) < 0.01, slope * 4) for the least-squares slope of the values
\* in date order; at a slope <= -0.01 it reports no plateau where
\* detect_plateau reports one, and on insufficient data it gives 0.0 where
\* detect_plateau gives None.
C6_GrowthVariant ==
    Done("detect_plateau_and_growth") =>
        \A s \in {arg.one_rm_timeseries} :
            /\ Len(s) < 3 =>
                /\ res.val = [plateau |-> FALSE, growth |-> Q(0)]
                /\ \A o \in detect_plateau(s, DefaultMinPoints, DefaultSlopeThreshold) :
                      o.plateau = FALSE /\ o.slope = None /\ o.slope # res.val.growth
            /\ Len(s) >= 3 =>
                \A ys \in {ValuesByDate(s)} : \A slope \in {OlsSlope(ys)} :
                    /\ res.val.plateau <=> RLt(RAbs(slope), R(1, 100))
                    /\ res.val.growth = RMul(slope, Q(4))
                    /\ (RLe(slope, R(-1, 100)) /\ Values(s) = ys) =>
                          /\ res.val.plateau = FALSE
                          /\ \A o \in detect_plateau(s, 3, DefaultSlopeThreshold) :
                                o.plateau = TRUE

\* Three points given out of date order whose values fall in date order.
C6_Witness ==
    /\ Done("detect_plateau_and_growth")
    /\ arg.one_rm_timeseries = <<[date |-> <<2024, 1, 8>>, val |-> Q(100)],
                                 [date |-> <<2024, 1, 1>>, val |-> Q(104)],
                                 [date |-> <<2024, 1, 8>>, val |-> R(998, 10)]>>
    /\ res.val.plateau = FALSE
    /\ RLt(res.val.growth, Q(0))

\* A case of C6 where both analyzers fit the same falling series.
C6_WitnessDistinct ==
    /\ Done("detect_plateau_and_growth")
    /\ Len(arg.one_rm_timeseries) = 3
    /\ Values(arg.one_rm_timeseries) = ValuesByDate(arg.one_rm_timeseries)
    /\ RLe(OlsSlope(Values(arg.one_rm_timeseries)), R(-1, 100))
    /\ res.val.plateau = FALSE

\* C7: estimate_1rm(weight, reps) is weight * (1 + reps / 30), i.e.
\* 30 * result = weight * (30 + reps); non-decreasing in weight and in reps,
\* at least weight, weight at reps = 0, 0 at weight = 0; the copy in cli.py
\* gives the same value.
C7_Epley ==
    (Done("estimate_1rm") \/ Done("cli.estimate_1rm")) =>
        LET w == arg.weight
            r == arg.reps
            Same(w2, r2) == IF arg.op = "estimate_1rm" THEN estimate_1rm(w2, r2)
                            ELSE cli_estimate_1rm(w2, r2)
        IN  /\ RMul(Q(30), res.val) = RMul(w, Q(30 + r))
            /\ \A w2 \in EstWeights : RLe(w, w2) => RLe(res.val, Same(w2, r))
            /\ \A r2 \in EstReps : r <= r2 => RLe(res.val, Same(w, r2))
            /\ RLe(w, res.val)
            /\ r = 0 => res.val = w
            /\ w = Q(0) => res.val = Q(0)
            /\ cli_estimate_1rm(w, r) = estimate_1rm(w, r)

C7_Witness ==
    /\ Done("cli.estimate_1rm")
    /\ arg.weight = R(998, 10)
    /\ arg.reps = 10
    /\ RLt(arg.weight, res.val)
    /\ res.val = estimate_1rm(R(998, 10), 10)

(***************************************************************************)
(* Properties of the muscle-group aggregation and of the handlers.         *)
(***************************************************************************)
Viewed == resp.op = "view_performance_by_muscle" /\ resp.shown

\* The sum of weight * reps over the sets recorded under exactly the
\* muscle-group string m in the given workouts.
VolumeUnder(workouts_data, m) ==
    SumSeq([i \in 1..Len(workouts_data) |->
        SumSeq([j \in 1..Len(workouts_data[i].exercises) |->
            LET e == workouts_data[i].exercises[j]
            IN  IF e.muscle_group = m
                THEN SumSeq([k \in 1..Len(e.sets) |-> RMul(e.sets[k].weight, Q(e.sets[k].reps))])
                ELSE Q(0)])])

\* Some set is recorded under exactly m in the given workouts.
HasSetUnder(workouts_data, m) ==
    \E i \in 1..Len(workouts_data) : \E j \in 1..Len(workouts_data[i].exercises) :
        /\ workouts_data[i].exercises[j].muscle_group = m
        /\ workouts_data[i].exercises[j].sets # <<>>

\* The stored workouts whose date string parses back.
ParsedWorkouts == SelectSeq(load_workouts, LAMBDA w : ~StrptimeFails(w.workout_date))

\* C8: for every muscle group the aggregate's total_volume is the sum of
\* weight * reps over all sets recorded under exactly that string in all
\* stored workouts, and it is never negative.
C8_AsStated ==
    Viewed =>
        \A m \in MuscleGroups :
            /\ m \in DOMAIN resp.muscle_data =>
                  /\ resp.muscle_data[m].total_volume = VolumeUnder(load_workouts, m)
                  /\ RLe(Q(0), resp.muscle_data[m].total_volume)
            /\ RLt(Q(0), VolumeUnder(load_workouts, m)) => m \in DOMAIN resp.muscle_data

\* The aggregation over the workouts it does not skip: total_volume is the
\* sum over the stored workouts whose date parses, and the summary endpoint
\* totals all sets or answers 500.
VolumeOfParsedWorkouts ==
    /\ Viewed =>
          \A m \in DOMAIN resp.muscle_data :
              /\ resp.muscle_data[m].total_volume = VolumeUnder(ParsedWorkouts, m)
              /\ RLe(Q(0), resp.muscle_data[m].total_volume)
    /\ (resp.op = "get_summary_stats" /\ resp.http.status = 200) =>
          LET groups == <<"Chest", "chest", "Legs">>
          IN  resp.http.body.total_volume =
                  SumSeq([i \in 1..Len(groups) |-> VolumeUnder(load_workouts, groups[i])])

\* C9 as stated: every muscle group present in the mapping has total
\* volume > 0.
C9_AsStated ==
    Viewed => \A m \in DOMAIN resp.muscle_data :
                  RLt(Q(0), resp.muscle_data[m].total_volume)

\* C9 amended: an entry exists exactly for the muscle groups with at least
\* one recorded set in a workout that is not skipped; its total volume is
\* >= 0 and may be 0.
C9_EntryIffSetRecorded ==
    Viewed =>
        /\ DOMAIN resp.muscle_data \subseteq MuscleGroups
        /\ \A m \in MuscleGroups :
              m \in DOMAIN resp.muscle_data <=> HasSetUnder(ParsedWorkouts, m)
        /\ \A m \in DOMAIN resp.muscle_data : RLe(Q(0), resp.muscle_data[m].total_volume)

\* A bodyweight squat gives "Legs" an entry of volume 0, while the chest
\* exercise without sets gives "Chest" none.
C9_Witness ==
    /\ Viewed
    /\ DOMAIN resp.muscle_data = {"Legs"}
    /\ resp.muscle_data["Legs"].total_volume = Q(0)
    /\ \E i \in 1..Len(load_workouts) :
          /\ load_workouts[i].exercises[1].muscle_group = "Chest"
          /\ load_workouts[i].exercises[1].sets = <<>>
          /\ ~StrptimeFails(load_workouts[i].workout_date)

\* C10: a request for an exercise with no qualifying time-series point is
\* answered 404, not with a server error.
C10_AsStated ==
    (/\ resp.op = "get_exercise_analytics"
     /\ ~AnyDateFails(load_workouts)
     /\ get_1rm_timeseries_obj(ToEntries(load_workouts), resp.exercise_name) = <<>>) =>
        resp.http.status = 404

(***************************************************************************)
(* Properties of concurrent saves.                                         *)
(***************************************************************************)
Completed == {t \in Threads : calls[t].pc = "done"}
Quiescent == \A t \in Threads : calls[t].pc \in {"idle", "done"}

\* C11: once the concurrent save_workout calls have returned, every workout
\* whose save completed is in the stored list, each call with an entry of
\* its own: no saved workout is lost.
C11_AsStated ==
    Quiescent =>
        \E f \in [Completed -> 1..Len(load_workouts)] :
            /\ \A t, u \in Completed : t # u => f[t] # f[u]
            /\ \A t \in Completed :
                  load_workouts[f[t]] = workout_to_dict(calls[t].workout, TRUE)

\* Two saves of different workouts completed and the stored list holds only
\* one of them.
C11_LostSave ==
    /\ Quiescent
    /\ Cardinality(Completed) = 2
    /\ \E t, u \in Completed : calls[t].workout # calls[u].workout
    /\ Len(load_workouts) = 1

(***************************************************************************)
(* Properties of the exercise-analytics response.                          *)
(***************************************************************************)
Answered == resp.op = "get_exercise_analytics" /\ resp.http.status = 200

\* The time-series the handler gave to detect_plateau.
AnsweredSeries == get_1rm_timeseries_obj(ToEntries(load_workouts), resp.exercise_name)

\* C12: the slope of the response is null only when the time-series has
\* fewer than min_points points; with min_points points or more the response
\* carries the slope detect_plateau computed, a slope of zero included,
\* alongside its plateau verdict.
C12_AsStated ==
    Answered =>
        \A timeseries \in {AnsweredSeries} :
            /\ resp.http.body.slope = None => Len(timeseries) < DefaultMinPoints
            /\ Len(timeseries) >= DefaultMinPoints =>
                  \E o \in detect_plateau(timeseries, DefaultMinPoints, DefaultSlopeThreshold) :
                      /\ resp.http.body.plateau_detected = o.plateau
                      /\ resp.http.body.slope = o.slope

\* A flat series of min_points points: a plateau is reported, and no slope.
C12_NullSlopeOnFlatSeries ==
    /\ Answered
    /\ Len(AnsweredSeries) >= DefaultMinPoints
    /\ IsFlat(Values(AnsweredSeries))
    /\ resp.http.body.plateau_detected = TRUE
    /\ resp.http.body.slope = None

\* With min_points points or more and a slope other than zero the response
\* carries the slope and the verdict of detect_plateau.
C12_NonZeroSlopeCarried ==
    Answered =>
        \A timeseries \in {AnsweredSeries} :
            \A o \in detect_plateau(timeseries, DefaultMinPoints, DefaultSlopeThreshold) :
                (o.slope # None /\ o.slope # Q(0)) =>
                    /\ resp.http.body.slope = o.slope
                    /\ resp.http.body.plateau_detected = o.plateau

(***************************************************************************)
(* Properties of the store used by one caller at a time.                   *)
(***************************************************************************)
\* The stored list still begins with the entries it held before the step.
KeepsStoredEntries ==
    /\ Len(load_workouts') >= Len(load_workouts)
    /\ SubSeq(load_workouts', 1, Len(load_workouts)) = load_workouts

\* C13: after any sequence of save_workout and clear_all_workouts calls made
\* one at a time on an empty store, the stored list, and what load_workouts
\* returns, is the list of the dicts of the workouts saved since the most
\* recent clear_all_workouts, in the order of the saves; a save_workout step
\* appends one entry and keeps the earlier ones as they were, and a
\* load_workouts step leaves the store as it was.
C13_StoreIsSavedSinceClear ==
    /\ [](load_workouts = saved)
    /\ [](resp.op = "load_workouts" => resp.data = saved)
    /\ [][resp'.op = "save_workout" =>
            (KeepsStoredEntries /\ Len(load_workouts') = Len(load_workouts) + 1)]_vars
    /\ [][resp'.op = "load_workouts" => store' = store]_vars

\* load_workouts returned two different workouts, saved one after the other.
C13_Witness ==
    /\ resp.op = "load_workouts"
    /\ Len(resp.data) = 2
    /\ resp.data[1] # resp.data[2]
    /\ resp.data = saved

====
